---- MODULE Spec2Model ----
(***************************************************************************)
(* sertee: one source character device fanned out to several CUSE devices  *)
(* through one ring buffer (src/sertee.c).                                  *)
(*                                                                         *)
(* Pointers into the ring (sertee.pos, sertee_dev.pos, the reply buffer)   *)
(* are modelled as offsets from sertee.buf; the NULL that calloc and       *)
(* sertee_release store in sertee_dev.pos lies below the buffer (NullPos). *)
(* Source bytes are numbered 1, 2, 3, ... in the order the source emits    *)
(* them, so a byte's value tells which source byte it is; 0 is a ring cell *)
(* that malloc returned and nothing has written yet.                       *)
(***************************************************************************)
EXTENDS Integers, Sequences, FiniteSets, TLC

\* ---- bounds of the model
bufsize == 3
MaxTotal == 7
\* the bytes the source delivers while main() is followed step by step
MaxDrained == 3

\* ---- program constants
RoundMod == 256
NullPos == -1

\* main(): one sertee_dev per name of --name=uart0,uart1
dev_names == <<"uart0", "uart1">>
n_devs == Len(dev_names)
Devs == 1..n_devs

\* the processes that may hold a device open at the same time
Clients == {"c1", "c2"}
\* request sizes and offsets the framework hands to sertee_read
Sizes == {1, bufsize + 1}
Offsets == {0, 1}
\* poll handles the framework hands to sertee_poll; 0 is a NULL handle
Handles == {1, 2}
\* the bytes a client writes, and the errno values of a failed write()
WriteData == {<<"x", "y">>}
Errnos == {"EAGAIN", "EIO"}

VARIABLES
    buf,          \* sertee.buf: the ring's cells
    pos,          \* sertee.pos: the producer's position
    round,        \* sertee.round: the producer's wrap generation
    dev_pos,      \* sertee_dev.pos per device
    dev_round,    \* sertee_dev.round per device
    n_clients,    \* sertee_dev.n_clients per device
    poll_handle,  \* sertee_dev.poll_handle per device (0: none)
    total,        \* number of bytes the source has delivered so far
    last,         \* the latest request or source read and its reply
    recv,         \* the bytes replied to device tap since its latest open
    hist,         \* what happened to device tap since its latest open
    notifier,     \* libfuse's poll handles: "none", "armed" or "fired"
    proc          \* where main() is, and the locals of main and sertee_loop

ringVars == <<buf, pos, round, total>>
devVars == <<dev_pos, dev_round, n_clients, poll_handle>>
tapVars == <<recv, hist>>
vars == <<buf, pos, round, dev_pos, dev_round, n_clients, poll_handle,
          total, last, recv, hist, notifier, proc>>

Min(a, b) == IF a < b THEN a ELSE b

NoLast ==
    [op |-> "none", dev |-> 0, size |-> 0, off |-> 0, ret |-> 0, start |-> 0,
     ph |-> 0, ready |-> FALSE, freed |-> {}, fired |-> {},
     data |-> <<>>, calls |-> <<>>, err |-> "", exited |-> FALSE]

\* openTotal: bytes the source had delivered when tap was opened;
\* noRead: no read request has reached tap since then;
\* off0: every read since then had offset 0 (recv is kept only while it holds);
\* fit: before every source read of n bytes since then, the bytes delivered
\*      since the open and not yet replied, plus n, were at most bufsize
NoHist == [openTotal |-> 0, noRead |-> TRUE, off0 |-> TRUE, fit |-> TRUE]

\* main() before the first device is created: rv is 0 after fuse_opt_parse
\* n_devs: sertee.n_devs; fsess: sertee_dev.fsess per device created;
\* epoll: the descriptors added to epoll_fd (0 is the source, data.ptr = 0);
\* events, i, stop: the locals of sertee_loop; torn: the sessions torn down
AtStart ==
    [pc |-> "register", n_devs |-> 0, fsess |-> <<>>, epoll |-> {0}, rv |-> 0,
     events |-> <<>>, i |-> 0, stop |-> FALSE, torn |-> <<>>,
     status |-> "running"]

\* main() at the call of sertee_loop after every device was registered
InLoop ==
    [AtStart EXCEPT !.pc = "wait", !.n_devs = n_devs,
                    !.fsess = [d \in Devs |-> "set"], !.epoll = {0} \cup Devs]

\* main(): memset, malloc of buf, pos = buf; calloc of every sertee_dev
Init ==
    /\ proc = InLoop
    /\ buf = [i \in 0..(bufsize - 1) |-> 0]
    /\ pos = 0
    /\ round = 0
    /\ dev_pos = [d \in Devs |-> NullPos]
    /\ dev_round = [d \in Devs |-> 0]
    /\ n_clients = [d \in Devs |-> 0]
    /\ poll_handle = [d \in Devs |-> 0]
    /\ total = 0
    /\ last = NoLast
    /\ recv = <<>>
    /\ hist = NoHist
    /\ notifier = [k \in Devs \X Handles |-> "none"]

\* ---- get_data_end / get_avail_data_size
\* (a get_data_end that takes a device at the producer's position for caught
\*  up without comparing the rounds)
get_data_end_noround(dpos, dround, spos, sround) ==
    IF dpos < spos THEN spos
    ELSE IF dpos = spos THEN 0
    ELSE bufsize

get_data_end(dpos, dround, spos, sround) ==
    IF dpos < spos THEN spos
    ELSE IF dpos = spos /\ sround = dround THEN 0
    ELSE bufsize

\* (a size that counts the cell at the end of the segment too)
get_avail_data_size_incl(dpos, dround, spos, sround) ==
    LET end == get_data_end(dpos, dround, spos, sround)
    IN  IF dpos >= end THEN 0 ELSE end - dpos + 1

get_avail_data_size(dpos, dround, spos, sround) ==
    LET end == get_data_end(dpos, dround, spos, sround)
    IN  IF dpos >= end THEN 0 ELSE end - dpos

avail(d) == get_avail_data_size(dev_pos[d], dev_round[d], pos, round)

\* ---- sertee_open
\* (an open that takes the producer's round as it is)
open_round_same(sround) == sround

open_round(sround) == (sround - (IF sround > 0 THEN 1 ELSE 0)) % RoundMod

\* (an open that sets the cursor only when no client holds the device)
sertee_open_first_only(d) ==
    /\ n_clients[d] < Cardinality(Clients)
    /\ dev_pos' = [dev_pos EXCEPT ![d] = IF n_clients[d] = 0 THEN pos ELSE @]
    /\ dev_round' = [dev_round EXCEPT
                       ![d] = IF n_clients[d] = 0 THEN open_round(round) ELSE @]
    /\ n_clients' = [n_clients EXCEPT ![d] = @ + 1]
    /\ UNCHANGED <<ringVars, poll_handle>>

sertee_open(d) ==
    /\ n_clients[d] < Cardinality(Clients)
    /\ dev_pos' = [dev_pos EXCEPT ![d] = pos]
    /\ dev_round' = [dev_round EXCEPT ![d] = open_round(round)]
    /\ n_clients' = [n_clients EXCEPT ![d] = @ + 1]
    /\ UNCHANGED <<ringVars, poll_handle>>

\* ---- sertee_release
sertee_release(d) ==
    /\ n_clients[d] > 0
    /\ LET n == n_clients[d] - 1
       IN  /\ n_clients' = [n_clients EXCEPT ![d] = n]
           /\ dev_pos' = [dev_pos EXCEPT ![d] = IF n <= 0 THEN NullPos ELSE @]
    /\ UNCHANGED <<ringVars, dev_round, poll_handle>>

\* ---- sertee_read
\* (a read that does not cut the size to what is available)
read_size_noclamp(size, off, available) ==
    IF off > available THEN 0 ELSE size

read_size(size, off, available) ==
    IF off > available THEN 0
    ELSE IF off + size > available THEN available - off
    ELSE size

\* (a read that does not take the position back to buf at the end of the ring)
read_advance_nowrap(dpos, sz) == dpos + sz

read_advance(dpos, sz) == IF dpos + sz = bufsize THEN 0 ELSE dpos + sz

read_round(dpos, dround, sz) ==
    IF dpos + sz = bufsize THEN (dround + 1) % RoundMod ELSE dround

sertee_read(d, size, off) ==
    /\ n_clients[d] > 0
    /\ LET sz == read_size(size, off, avail(d))
       IN  /\ dev_pos' = [dev_pos EXCEPT ![d] = read_advance(@, sz)]
           /\ dev_round' = [dev_round EXCEPT
                              ![d] = read_round(dev_pos[d], @, sz)]
    /\ UNCHANGED <<ringVars, n_clients, poll_handle>>

\* fuse_reply_buf(req, sertee_dev->pos + off, size)
read_reply(d, size, off) ==
    [NoLast EXCEPT !.op = "read", !.dev = d, !.size = size, !.off = off,
                   !.ret = read_size(size, off, avail(d)),
                   !.start = dev_pos[d] + off]

\* the n cells from offset start of buf; -1 stands for a byte fetched from
\* outside the buffer
ReplyData(start, n) ==
    [i \in 1..n |-> IF (start + i - 1) \in DOMAIN buf
                    THEN buf[start + i - 1] ELSE -1]

\* ---- sertee_poll
\* (a poll that keeps the handle it already holds)
poll_retain_keep(old, ph) == IF old # 0 THEN old ELSE ph

poll_retain(old, ph) == IF ph # 0 THEN ph ELSE old

\* (a poll that never destroys the handle it replaces)
poll_destroy_never(old, ph) == {}

poll_destroy(old, ph) == IF ph # 0 /\ old # 0 THEN {old} ELSE {}

poll_revents(available) == available > 0

sertee_poll(d, ph) ==
    /\ n_clients[d] > 0
    /\ ph # poll_handle[d] \/ ph = 0
    /\ poll_handle' = [poll_handle EXCEPT ![d] = poll_retain(@, ph)]
    /\ UNCHANGED <<ringVars, dev_pos, dev_round, n_clients>>

\* fuse_pollhandle_destroy of the old handle and fuse_reply_poll(req, revents)
poll_reply(d, ph) ==
    [NoLast EXCEPT !.op = "poll", !.dev = d, !.ph = ph,
                   !.freed = {<<d, h>> : h \in poll_destroy(poll_handle[d], ph)},
                   !.ready = poll_revents(avail(d))]

\* ---- sertee_write
\* what write(source_fd, buf, size) can return: a count, or -1 with errno set
write_results(data) ==
    {[srv |-> n, errno |-> ""] : n \in 0..Len(data)}
        \cup {[srv |-> -1, errno |-> e] : e \in Errnos}

\* (a reply that counts the bytes asked for, not the bytes written)
write_count_size(data, res) == Len(data)

write_count(data, res) == res.srv

sertee_write(d, data, res) ==
    /\ n_clients[d] > 0
    /\ res \in write_results(data)
    /\ UNCHANGED <<ringVars, devVars>>

\* the write() issued, then fuse_reply_err(req, errno) or
\* fuse_reply_write(req, size)
write_reply(d, data, res) ==
    [NoLast EXCEPT !.op = "write", !.dev = d, !.size = Len(data),
                   !.data = data,
                   !.calls = <<[fd |-> "source_fd", data |-> data,
                                size |-> Len(data), res |-> res]>>,
                   !.err = IF res.srv < 0 THEN res.errno ELSE "",
                   !.ret = IF res.srv < 0 THEN 0 ELSE write_count(data, res)]

\* ---- source_read: one iteration of the while loop with srv > 0
\* (an overtake test that also takes a device at the producer's old position)
overtaken_tie(spos, dpos, srv) == spos <= dpos /\ dpos <= spos + srv

overtaken(spos, dpos, srv) == spos < dpos /\ dpos <= spos + srv

\* (a repair that takes an overtaken device back to where the write began)
repair_reset(spos, dpos, srv) == IF overtaken(spos, dpos, srv) THEN spos ELSE dpos

repair(spos, dpos, srv) == IF overtaken(spos, dpos, srv) THEN spos + srv ELSE dpos

\* (a producer that does not go back to buf at the end of the ring)
source_pos_nowrap(spos, srv) == spos + srv

source_pos(spos, srv) == IF spos + srv = bufsize THEN 0 ELSE spos + srv

source_round(spos, sround, srv) ==
    IF spos + srv = bufsize THEN (sround + 1) % RoundMod ELSE sround

\* the devices whose poll handle the iteration notifies and destroys
wake(srv) ==
    {d \in Devs :
        /\ poll_handle[d] # 0
        /\ get_avail_data_size(repair(pos, dev_pos[d], srv), dev_round[d],
                               source_pos(pos, srv),
                               source_round(pos, round, srv)) # 0}

source_read(srv) ==
    /\ total + srv <= MaxTotal
    /\ srv <= bufsize - pos
    /\ buf' = [i \in DOMAIN buf |->
                 IF pos <= i /\ i < pos + srv THEN total + (i - pos) + 1
                 ELSE buf[i]]
    /\ dev_pos' = [d \in Devs |-> repair(pos, dev_pos[d], srv)]
    /\ pos' = source_pos(pos, srv)
    /\ round' = source_round(pos, round, srv)
    /\ poll_handle' = [d \in Devs |->
                         IF d \in wake(srv) THEN 0 ELSE poll_handle[d]]
    /\ total' = total + srv
    /\ UNCHANGED <<dev_round, n_clients>>

\* fuse_notify_poll and fuse_pollhandle_destroy of the iteration
source_notify(srv) ==
    [NoLast EXCEPT !.op = "source_read", !.ret = srv, !.start = pos,
                   !.size = bufsize - pos,
                   !.fired = {<<d, poll_handle[d]>> : d \in wake(srv)},
                   !.freed = {<<d, poll_handle[d]>> : d \in wake(srv)}]

\* ---- source_read: read() returned an error or 0; the loop is left
read_failures == {"eagain", "eintr", "error", "eof"}

source_stop(why) ==
    /\ why \in read_failures
    /\ UNCHANGED <<ringVars, devVars>>

\* ---- the poll handles of libfuse: one is armed when the framework hands
\* it to sertee_poll, fired by fuse_notify_poll and gone ("none") after
\* fuse_pollhandle_destroy; rep is the record of a poll or of a source read
handle_life(n, rep) ==
    [k \in Devs \X Handles |->
        IF rep.op = "poll" /\ k = <<rep.dev, rep.ph>> THEN "armed"
        ELSE IF k \in rep.freed THEN "none"
        ELSE IF k \in rep.fired THEN "fired"
        ELSE n[k]]

\* ---- the event loop dispatches one request or one source read at a time;
\* last writes down the request and what the program replied
Next ==
    \/ \E d \in Devs :
          /\ sertee_open(d)
          /\ last' = [NoLast EXCEPT !.op = "open", !.dev = d]
          /\ UNCHANGED <<tapVars, notifier, proc>>
    \/ \E d \in Devs :
          /\ sertee_release(d)
          /\ last' = [NoLast EXCEPT !.op = "release", !.dev = d]
          /\ UNCHANGED <<tapVars, notifier, proc>>
    \/ \E d \in Devs, size \in Sizes, off \in Offsets :
          /\ sertee_read(d, size, off)
          /\ last' = read_reply(d, size, off)
          /\ UNCHANGED <<tapVars, notifier, proc>>
    \/ \E d \in Devs, ph \in Handles \cup {0} :
          /\ sertee_poll(d, ph)
          /\ last' = poll_reply(d, ph)
          /\ notifier' = handle_life(notifier, last')
          /\ UNCHANGED <<tapVars, proc>>
    \/ \E srv \in 1..bufsize :
          /\ source_read(srv)
          /\ last' = source_notify(srv)
          /\ notifier' = handle_life(notifier, last')
          /\ UNCHANGED <<tapVars, proc>>
    \/ \E why \in read_failures :
          /\ source_stop(why)
          /\ last' = [NoLast EXCEPT !.op = why]
          /\ UNCHANGED <<tapVars, notifier, proc>>

Spec == Init /\ [][Next]_vars

\* ---- the same program seen from one device, tap: the bytes replied to it
\* are written down; requests on the other devices are not
tap == CHOOSE d \in Devs : \A e \in Devs : d <= e

Other == [NoLast EXCEPT !.op = "other"]

TapOpen(d) ==
    IF d = tap
    THEN /\ recv' = <<>>
         /\ hist' = [NoHist EXCEPT !.openTotal = total]
         /\ last' = [NoLast EXCEPT !.op = "open", !.dev = d]
    ELSE UNCHANGED tapVars /\ last' = Other

TapRelease(d) ==
    /\ UNCHANGED tapVars
    /\ last' = IF d = tap THEN [NoLast EXCEPT !.op = "release", !.dev = d]
               ELSE Other

TapRead(d, size, off) ==
    IF d = tap
    THEN /\ last' = read_reply(d, size, off)
         /\ hist' = [hist EXCEPT !.off0 = @ /\ off = 0, !.noRead = FALSE]
         /\ recv' = IF hist'.off0
                    THEN recv \o ReplyData(last'.start, last'.ret)
                    ELSE <<>>
    ELSE UNCHANGED tapVars /\ last' = Other

TapSource(srv) ==
    /\ recv' = recv
    /\ hist' = [hist EXCEPT
                  !.fit = @ /\ (total - hist.openTotal - Len(recv)) + srv
                                <= bufsize]
    /\ last' = source_notify(srv)

NextTap ==
    \/ \E d \in Devs :
          sertee_open(d) /\ TapOpen(d) /\ UNCHANGED <<notifier, proc>>
    \/ \E d \in Devs :
          sertee_release(d) /\ TapRelease(d) /\ UNCHANGED <<notifier, proc>>
    \/ \E d \in Devs, size \in Sizes, off \in Offsets :
          sertee_read(d, size, off) /\ TapRead(d, size, off)
          /\ UNCHANGED <<notifier, proc>>
    \/ \E srv \in 1..bufsize :
          /\ source_read(srv) /\ TapSource(srv)
          /\ notifier' = handle_life(notifier, last')
          /\ UNCHANGED proc

SpecTap == Init /\ [][NextTap]_vars

\* ---- the program with the write path: what a write request did and was
\* replied is written down in last, the other requests are not
NextWrite ==
    \/ \E d \in Devs :
          sertee_open(d) /\ last' = Other
          /\ UNCHANGED <<tapVars, notifier, proc>>
    \/ \E d \in Devs :
          sertee_release(d) /\ last' = Other
          /\ UNCHANGED <<tapVars, notifier, proc>>
    \/ \E d \in Devs, size \in Sizes :
          sertee_read(d, size, 0) /\ last' = Other
          /\ UNCHANGED <<tapVars, notifier, proc>>
    \/ \E d \in Devs, ph \in Handles :
          /\ sertee_poll(d, ph) /\ last' = Other
          /\ notifier' = handle_life(notifier, poll_reply(d, ph))
          /\ UNCHANGED <<tapVars, proc>>
    \/ \E srv \in 1..bufsize :
          /\ source_read(srv) /\ last' = Other
          /\ notifier' = handle_life(notifier, source_notify(srv))
          /\ UNCHANGED <<tapVars, proc>>
    \/ \E d \in Devs, data \in WriteData :
        \E res \in write_results(data) :
          /\ sertee_write(d, data, res)
          /\ last' = write_reply(d, data, res)
          /\ UNCHANGED <<tapVars, notifier, proc>>

SpecWrite == Init /\ [][NextWrite]_vars

\* ---- main() and sertee_loop: the registration of the devices, the batches
\* of epoll_wait, the dispatch of each event and the teardown
InitMain ==
    /\ buf = [i \in 0..(bufsize - 1) |-> 0]
    /\ pos = 0
    /\ round = 0
    /\ dev_pos = [d \in Devs |-> NullPos]
    /\ dev_round = [d \in Devs |-> 0]
    /\ n_clients = [d \in Devs |-> 0]
    /\ poll_handle = [d \in Devs |-> 0]
    /\ total = 0
    /\ last = NoLast
    /\ recv = <<>>
    /\ hist = NoHist
    /\ notifier = [k \in Devs \X Handles |-> "none"]
    /\ proc = AtStart

exit_code(rv) == IF rv = 0 THEN "exit 0" ELSE "exit nonzero"

\* what sertee_lowlevel_main can meet: cuse_lowlevel_setup returns NULL,
\* epoll_ctl fails, or neither
setup_results == {"ok", "setup_null", "epoll_ctl_failed"}

\* if (rv) break; and the end of the names: both go on to sertee_loop
after_setup(rv, made) ==
    IF rv # 0 \/ made = n_devs THEN "wait" ELSE "register"

\* main(): one turn of the while loop over the device names
register(res) ==
    /\ proc.pc = "register"
    /\ proc.n_devs < n_devs
    /\ LET d == proc.n_devs + 1
           rv == IF res = "ok" THEN 0 ELSE 1
       IN  proc' = [proc EXCEPT
                      !.n_devs = d,
                      !.fsess = Append(@, IF res = "setup_null" THEN "null"
                                          ELSE "set"),
                      !.epoll = IF res = "ok" THEN @ \cup {d} ELSE @,
                      !.rv = rv,
                      !.pc = after_setup(rv, d)]
    /\ last' = [NoLast EXCEPT !.op = "register", !.err = res]
    /\ UNCHANGED <<ringVars, devVars, tapVars, notifier>>

\* #define MAX_EVENTS
MAX_EVENTS == 5

\* what epoll_wait can return: every descriptor that is ready, once, in any
\* order, at most MAX_EVENTS of them; none after the timeout
Batches(fds) ==
    {b \in UNION {[1..n -> fds] : n \in 0..Min(MAX_EVENTS, Cardinality(fds))} :
        \A j, k \in DOMAIN b : j # k => b[j] # b[k]}

\* sertee_loop: while (!stop) epoll_wait
epoll_wait_failed ==
    /\ proc.pc = "wait"
    /\ proc' = [proc EXCEPT !.pc = "teardown"]
    /\ last' = [NoLast EXCEPT !.op = "epoll_wait failed"]
    /\ UNCHANGED <<ringVars, devVars, tapVars, notifier>>

epoll_wait(b) ==
    /\ proc.pc = "wait"
    /\ b \in Batches(proc.epoll)
    /\ proc' = IF b = <<>> THEN proc
               ELSE [proc EXCEPT !.pc = "batch", !.events = b, !.i = 1]
    /\ last' = [NoLast EXCEPT !.op = "epoll_wait", !.ret = Len(b)]
    /\ UNCHANGED <<ringVars, devVars, tapVars, notifier>>

\* (a loop that goes on with the batch after stop was set)
next_event_nobreak(p, stop) ==
    IF p.i = Len(p.events)
    THEN IF stop \/ p.stop
         THEN [p EXCEPT !.stop = TRUE, !.pc = "teardown"]
         ELSE [p EXCEPT !.pc = "wait", !.events = <<>>, !.i = 0]
    ELSE [p EXCEPT !.i = @ + 1, !.stop = @ \/ stop]

\* the end of one turn of the for loop: stop = 1; break; leaves both loops,
\* the end of the batch goes back to epoll_wait
next_event(p, stop) ==
    IF stop
    THEN [p EXCEPT !.stop = TRUE, !.pc = "teardown"]
    ELSE IF p.i = Len(p.events)
         THEN [p EXCEPT !.pc = "wait", !.events = <<>>, !.i = 0]
         ELSE [p EXCEPT !.i = @ + 1]

\* the descriptor of the event the for loop is at
event == proc.events[proc.i]
AtSource == proc.pc = "batch" /\ event = 0
AtDevice(d) == proc.pc = "batch" /\ event = d

\* events[i].data.ptr == 0: source_read; one iteration that read srv bytes
drain(srv) ==
    /\ AtSource
    /\ total + srv <= MaxDrained
    /\ source_read(srv)
    /\ last' = source_notify(srv)
    /\ notifier' = handle_life(notifier, last')
    /\ UNCHANGED <<tapVars, proc>>

\* (a loop that gives up when the source fails or ends)
source_ends_loop_on_error(why) == why \in {"error", "eof"}

\* source_read returns nothing and sertee_loop does continue after it
source_ends_loop(why) == FALSE

\* the iteration whose read() failed or returned 0: source_read returns,
\* continue
drain_end(why) ==
    /\ AtSource
    /\ source_stop(why)
    /\ last' = [NoLast EXCEPT !.op = why]
    /\ proc' = next_event(proc, source_ends_loop(why))
    /\ UNCHANGED <<tapVars, notifier>>

\* fuse_session_receive_buf returned -EINTR, a negative value or 0
receive_results == {"eintr", "failed", "eof"}

receive(d, res) ==
    /\ AtDevice(d)
    /\ res \in receive_results
    /\ proc' = next_event(proc, res # "eintr")
    /\ last' = [NoLast EXCEPT !.op = "receive " \o res, !.dev = d]
    /\ UNCHANGED <<ringVars, devVars, tapVars, notifier>>

\* fuse_session_process_buf hands the request to its callback;
\* fuse_session_exited is looked at after it
Requests == {"open", "release", "read", "poll", "write"}

process(d, op, exited) ==
    /\ AtDevice(d)
    /\ \/ op = "open" /\ sertee_open(d) /\ UNCHANGED notifier
       \/ op = "release" /\ sertee_release(d) /\ UNCHANGED notifier
       \/ /\ op = "read"
          /\ \E size \in Sizes : sertee_read(d, size, 0)
          /\ UNCHANGED notifier
       \/ /\ op = "poll"
          /\ \E ph \in Handles :
                /\ sertee_poll(d, ph)
                /\ notifier' = handle_life(notifier, poll_reply(d, ph))
       \/ /\ op = "write"
          /\ \E data \in WriteData : \E res \in write_results(data) :
                sertee_write(d, data, res)
          /\ UNCHANGED notifier
    /\ last' = [NoLast EXCEPT !.op = op, !.dev = d, !.exited = exited]
    /\ proc' = next_event(proc, exited)
    /\ UNCHANGED tapVars

\* sertee_loop has returned: its locals are gone
returned(p) == [p EXCEPT !.events = <<>>, !.i = 0]

\* main(): fuse_session_reset and cuse_lowlevel_teardown of the next device;
\* with fsess NULL the behaviour is undefined: the process is killed or not
teardown(res) ==
    /\ proc.pc = "teardown"
    /\ Len(proc.torn) < proc.n_devs
    /\ LET d == Len(proc.torn) + 1
       IN  /\ res \in IF proc.fsess[d] = "null" THEN {"killed", "torn"}
                       ELSE {"torn"}
           /\ proc' = IF res = "killed"
                      THEN [returned(proc) EXCEPT !.pc = "exit",
                                                  !.status = "killed"]
                      ELSE [returned(proc) EXCEPT !.torn = Append(@, d)]
           /\ last' = [NoLast EXCEPT !.op = "teardown", !.dev = d]
    /\ UNCHANGED <<ringVars, devVars, tapVars, notifier>>

\* main(): close(epoll_fd) and return rv
return(close_failed) ==
    /\ proc.pc = "teardown"
    /\ Len(proc.torn) = proc.n_devs
    /\ proc' = [returned(proc) EXCEPT
                  !.pc = "exit",
                  !.status = exit_code(IF close_failed THEN 1 ELSE proc.rv)]
    /\ last' = [NoLast EXCEPT !.op = "return"]
    /\ UNCHANGED <<ringVars, devVars, tapVars, notifier>>

NextMain ==
    \/ \E res \in setup_results : register(res)
    \/ epoll_wait_failed
    \/ \E b \in Batches(proc.epoll) : epoll_wait(b)
    \/ \E srv \in 1..bufsize : drain(srv)
    \/ \E why \in read_failures : drain_end(why)
    \/ \E d \in Devs, res \in receive_results : receive(d, res)
    \/ \E d \in Devs, op \in Requests, exited \in BOOLEAN :
          process(d, op, exited)
    \/ \E res \in {"killed", "torn"} : teardown(res)
    \/ \E close_failed \in BOOLEAN : return(close_failed)

SpecMain == InitMain /\ [][NextMain]_vars

(***************************************************************************)
(* Properties                                                              *)
(***************************************************************************)
IsOpen(d) == n_clients[d] > 0

Range(f) == {f[x] : x \in DOMAIN f}

\* the source bytes a + 1 .. b in source order
Stream(a, b) == [i \in 1..(b - a) |-> a + i]

\* the producer's round when tap was opened
OpenRound == hist.openTotal \div bufsize

\* the latest request is a read of tap
TapWasRead == last.op = "read" /\ last.dev = tap

\* the latest request is a read of tap at offset 0 that asked for bytes and
\* got none
TapDrained == TapWasRead /\ last.off = 0 /\ last.size > 0 /\ last.ret = 0

\* C1: every open consumer is in the producer's generation at or before the
\* producer's position, or one generation behind at or after it:
\* prod_gen - 1 <= read_gen <= prod_gen, read_gen = prod_gen => read_pos <=
\* prod_pos, read_gen = prod_gen - 1 => read_pos >= prod_pos.
C1_CursorGeneration ==
    \A d \in Devs :
        IsOpen(d) =>
            /\ round - 1 <= dev_round[d]
            /\ dev_round[d] <= round
            /\ (dev_round[d] = round => dev_pos[d] <= pos)
            /\ (dev_round[d] = round - 1 => dev_pos[d] >= pos)

\* tap is open, was opened at producer position p, the source has delivered
\* M <= bufsize - p bytes since, and tap has read at offset 0 until a read
\* returned no byte
C2_NoOvertakeDrained ==
    /\ IsOpen(tap)
    /\ hist.off0
    /\ total - hist.openTotal <= bufsize - (hist.openTotal % bufsize)
    /\ TapDrained

\* C2 as stated: whenever a consumer opened at producer position p, the source
\* delivered M <= capacity - p bytes since and the consumer read until a read
\* returned nothing, it has received exactly those M bytes in source order and
\* further reads return nothing.
C2_FanOutAsStated ==
    C2_NoOvertakeDrained =>
        recv = Stream(hist.openTotal, total) /\ avail(tap) = 0

\* C2 amended: the same, for a consumer opened before the ring first wrapped
\* (prod_gen = 0 at the open), whatever the other device does meanwhile.
C2_FanOutFidelity ==
    C2_NoOvertakeDrained /\ OpenRound = 0 =>
        recv = Stream(hist.openTotal, total) /\ avail(tap) = 0

C2_Witness ==
    /\ C2_NoOvertakeDrained
    /\ OpenRound = 0
    /\ hist.openTotal > 0
    /\ total - hist.openTotal >= 2
    /\ \E d \in Devs \ {tap} : IsOpen(d) /\ dev_pos[d] # dev_pos[tap]

\* tap was opened before any data, read at offset 0 only, and before every
\* source read of n bytes its unread bytes plus n were at most bufsize
C3_NeverOverwritten ==
    IsOpen(tap) /\ hist.openTotal = 0 /\ hist.off0 /\ hist.fit

\* C3: a consumer opened before any data and never overwritten receives the
\* source bytes 1, 2, 3, ... each once and in order over any number of wraps
\* (all of them once a read returns nothing); no reply crosses the end of the
\* ring: unread bytes that cross it come in two reads, the first ending exactly
\* at capacity and leaving the cursor at 0 for the second.
C3_CompleteCopyAcrossWrap ==
    C3_NeverOverwritten =>
        /\ recv = Stream(0, Len(recv))
        /\ Len(recv) <= total
        /\ (TapDrained => Len(recv) = total)
        /\ (TapWasRead =>
              LET unread == total - (Len(recv) - last.ret)
              IN  /\ last.start + last.ret <= bufsize
                  /\ (last.start + last.ret = bufsize => dev_pos[tap] = 0)
                  /\ (last.start + unread > bufsize /\ last.size >= bufsize
                        => last.start + last.ret = bufsize)
                  /\ (last.start + unread <= bufsize /\ last.size >= bufsize
                        => last.ret = unread))

\* the second read of a run that crossed the end of the ring: the replies
\* before it ended at capacity, it starts at 0 with the producer a round on
C3_Witness ==
    /\ C3_NeverOverwritten
    /\ TapWasRead
    /\ last.start = 0
    /\ last.ret > 0
    /\ Len(recv) - last.ret = bufsize
    /\ Len(recv) = total
    /\ round = 1

\* the source has delivered more than bufsize bytes since tap was opened
Lapped == total - hist.openTotal > bufsize

SegmentEnd(d) ==
    IF dev_pos[d] < pos THEN pos
    ELSE IF dev_pos[d] = pos /\ dev_round[d] = round THEN 0
    ELSE bufsize

SegmentAvailable(d) ==
    IF SegmentEnd(d) - dev_pos[d] > 0 THEN SegmentEnd(d) - dev_pos[d] ELSE 0

\* C5: a source read of k > 0 bytes at old_prod_pos sets read_pos to
\* old_prod_pos + k for exactly the consumers with old_prod_pos < read_pos <=
\* old_prod_pos + k and leaves every other read_pos (read_pos = old_prod_pos
\* included) alone; a read then replies from read_pos + offset, which for a
\* repaired consumer at offset 0 is the position just past the write.
C5_OvertakeRepair ==
    [][ /\ (last'.op = "source_read" =>
              \A d \in Devs :
                  dev_pos'[d] =
                      IF pos < dev_pos[d] /\ dev_pos[d] <= pos + last'.ret
                      THEN pos + last'.ret
                      ELSE dev_pos[d])
        /\ (last'.op = "read" =>
              last'.start = dev_pos[last'.dev] + last'.off) ]_vars

\* a source read has just moved an open consumer to the end of its write
C5_Witness ==
    /\ last.op = "source_read"
    /\ \E d \in Devs :
          /\ IsOpen(d)
          /\ dev_pos[d] = last.start + last.ret
          /\ dev_pos[d] # pos
    /\ \E d \in Devs : IsOpen(d) /\ dev_pos[d] = last.start

\* C6: a read(size, offset) replies 0 bytes if offset > available and
\* min(size, available - offset) bytes from read_pos + offset otherwise;
\* read_pos becomes read_pos + r, taken to 0 exactly when that is capacity,
\* and read_gen is incremented exactly then.
C6_ReadResult ==
    [][ last'.op = "read" =>
          LET d == last'.dev
              available == SegmentAvailable(d)
              r == last'.ret
              landed == dev_pos[d] + r
          IN  /\ r = IF last'.off > available THEN 0
                     ELSE Min(last'.size, available - last'.off)
              /\ last'.start = dev_pos[d] + last'.off
              /\ dev_pos'[d] = IF landed = bufsize THEN 0 ELSE landed
              /\ dev_round'[d] = IF landed = bufsize THEN dev_round[d] + 1
                                 ELSE dev_round[d] ]_vars

\* a read at offset 1 was cut to the bytes available past the offset
C6_Witness ==
    /\ last.op = "read"
    /\ last.off = 1
    /\ last.ret > 0
    /\ last.ret < last.size
    /\ dev_round[last.dev] = round - 1

\* the ring read from the producer's position to the end, then from the start
\* to the producer's position
History == [i \in 1..bufsize |-> buf[(pos + i - 1) % bufsize]]

\* C7: right after an open read_pos = prod_pos and read_gen = max(0, prod_gen
\* - 1). A consumer opened with prod_gen = 0 has nothing available then and is
\* only ever replied bytes the source delivered after the open; one opened
\* with prod_gen >= 1 can, while no source data arrives, read exactly the
\* capacity bytes of the ring (prod_pos..capacity, then 0..prod_pos) and has
\* nothing available after them.
C7_OpenPositioning ==
    /\ (last.op = "open" =>
          /\ dev_pos[last.dev] = pos
          /\ dev_round[last.dev] = (IF round - 1 > 0 THEN round - 1 ELSE 0)
          /\ (round = 0 => avail(last.dev) = 0))
    /\ (IsOpen(tap) /\ hist.off0 /\ OpenRound = 0 =>
          \A i \in 1..Len(recv) : recv[i] > hist.openTotal)
    /\ (IsOpen(tap) /\ hist.off0 /\ OpenRound >= 1 /\ total = hist.openTotal =>
          /\ Len(recv) <= bufsize
          /\ recv = SubSeq(History, 1, Len(recv))
          /\ (avail(tap) = 0 <=> (Len(recv) = bufsize)))

\* opened after a wrap with the producer inside the ring, tap has read all of
\* the history in two reads
C7_Witness ==
    /\ IsOpen(tap) /\ hist.off0 /\ OpenRound >= 1 /\ total = hist.openTotal
    /\ pos > 0
    /\ Len(recv) = bufsize
    /\ TapWasRead /\ last.start = 0 /\ last.ret = pos

\* C8 as stated: an open of a consumer that is already open increments
\* open_count and leaves its read_pos and read_gen unchanged.
C8_FirstOpenOnlyAsStated ==
    [][ last'.op = "open" /\ n_clients[last'.dev] > 0 =>
          /\ n_clients'[last'.dev] = n_clients[last'.dev] + 1
          /\ dev_pos'[last'.dev] = dev_pos[last'.dev]
          /\ dev_round'[last'.dev] = dev_round[last'.dev] ]_vars

\* C8 amended: every open, also of a consumer that is already open, increments
\* open_count and sets read_pos = prod_pos and read_gen = max(0, prod_gen - 1):
\* the clients of a device share one cursor and each open moves it.
C8_EveryOpenPositions ==
    [][ last'.op = "open" =>
          /\ n_clients'[last'.dev] = n_clients[last'.dev] + 1
          /\ dev_pos'[last'.dev] = pos
          /\ dev_round'[last'.dev] = (IF round > 0 THEN round - 1 ELSE 0) ]_vars

\* a second client has just opened a device whose first client had read up
\* to the producer: the cursor is back one round
C8_Witness ==
    /\ last.op = "open"
    /\ n_clients[last.dev] = 2
    /\ round >= 1
    /\ avail(last.dev) = bufsize - pos

\* C9 as stated: a poll with a notifier and available > 0 replies ready and
\* leaves pending_notifier unchanged; with available = 0 it releases the
\* retained notifier without firing it, retains the new one and replies
\* not-ready.
C9_PollAsStated ==
    [][ last'.op = "poll" /\ last'.ph # 0 =>
          LET d == last'.dev
          IN  IF SegmentAvailable(d) > 0
              THEN last'.ready /\ poll_handle'[d] = poll_handle[d]
              ELSE /\ ~last'.ready
                   /\ poll_handle'[d] = last'.ph
                   /\ last'.fired = {}
                   /\ last'.freed = IF poll_handle[d] # 0
                                    THEN {<<d, poll_handle[d]>>} ELSE {} ]_vars

\* C9 amended: a poll with a notifier releases the retained notifier without
\* firing it and retains the new one whether or not data is available; the
\* reply is ready exactly when available > 0. A poll without a notifier
\* leaves the retained one alone.
C9_PollProtocol ==
    [][ last'.op = "poll" =>
          LET d == last'.dev
          IN  /\ last'.ready = (SegmentAvailable(d) > 0)
              /\ last'.fired = {}
              /\ IF last'.ph # 0
                 THEN /\ poll_handle'[d] = last'.ph
                      /\ last'.freed = IF poll_handle[d] # 0
                                       THEN {<<d, poll_handle[d]>>} ELSE {}
                 ELSE /\ poll_handle'[d] = poll_handle[d]
                      /\ last'.freed = {} ]_vars

\* a poll that replied ready has replaced the retained notifier
C9_Witness ==
    /\ last.op = "poll"
    /\ last.ready
    /\ last.ph # 0
    /\ last.freed # {}
    /\ poll_handle[last.dev] = last.ph

\* C10: a notifier retained by a poll of an open consumer that replied
\* not-ready is fired by the source read that next publishes new bytes.
C10_NoLostWakeup ==
    [][ /\ last.op = "poll" /\ last.ph # 0 /\ ~last.ready
        /\ IsOpen(last.dev)
        /\ last'.op = "source_read"
        => /\ <<last.dev, last.ph>> \in last'.fired
           /\ poll_handle'[last.dev] = 0 ]_vars

\* a source read has just ended: no device holds a notifier with data
\* available, and the notifiers fired and destroyed are those that were held
\* by the devices that have data available now
IterationFiredAll ==
    last'.op = "source_read" =>
        /\ \A d \in Devs : ~(poll_handle'[d] # 0 /\ avail(d)' > 0)
        /\ last'.fired = {<<d, poll_handle[d]>> :
                            d \in {e \in Devs : poll_handle[e] # 0
                                                /\ avail(e)' > 0}}
        /\ last'.freed = last'.fired
        /\ \A d \in Devs : poll_handle'[d] # poll_handle[d]
                             => <<d, poll_handle[d]>> \in last'.fired

\* a poll that found nothing available, then a source delivery: the retained
\* notifier is fired in it; a source delivery right after another fires no
\* notifier of a device the first one fired
PollThenDelivery ==
    /\ (/\ last.op = "poll" /\ last.ph # 0 /\ ~last.ready
        /\ last'.op = "source_read"
        => <<last.dev, last.ph>> \in last'.fired)
    /\ (last.op = "source_read" /\ last'.op = "source_read" =>
          \A f \in last.fired : \A g \in last'.fired : g[1] # f[1])

\* C11: at the end of every source-read iteration with n > 0 no consumer has
\* both a retained notifier and available > 0, each such notifier having been
\* fired and released in the iteration; after a poll with available = 0 and
\* one source delivery the retained notifier is fired exactly once, and a
\* second delivery before the consumer polls again fires no notifier.
C11_NotifierPerIteration == [][IterationFiredAll /\ PollThenDelivery]_vars

\* the part of C11 that every source read of the program keeps
C11_IterationOnly == [][IterationFiredAll]_vars

\* the notifiers of device d that libfuse has handed out and not destroyed
Retained(d) == {h \in Handles : notifier[<<d, h>>] # "none"}

\* C12: each consumer retains at most one notifier at every moment; every
\* notifier handed to poll is fired at most once (only while armed), released
\* at most once (only while it exists) and never fired after its release; a
\* notifier replaced by a newer poll is released without being fired.
C12_NotifierOwnership ==
    [][ /\ \A d \in Devs :
              /\ Cardinality(Retained(d)) <= 1
              /\ Retained(d) = {h \in Handles : h = poll_handle[d]}
        /\ \A k \in last'.fired : notifier[k] = "armed"
        /\ \A k \in last'.freed : notifier[k] # "none"
        /\ (last'.op = "poll" /\ last'.ph # 0 /\ poll_handle[last'.dev] # 0 =>
              LET old == <<last'.dev, poll_handle[last'.dev]>>
              IN  /\ notifier[old] = "armed"
                  /\ last'.fired = {}
                  /\ last'.freed = {old}
                  /\ notifier'[old] = "none"
                  /\ {h \in Handles : notifier'[<<last'.dev, h>>] # "none"}
                       = {last'.ph}) ]_vars

\* a poll has replaced the notifier its device held while the other device
\* holds one too
C12_Witness ==
    /\ last.op = "poll"
    /\ last.ph # 0
    /\ last.freed # {}
    /\ \E d \in Devs \ {last.dev} : Retained(d) # {}
    /\ \E k \in last.freed : k[2] # last.ph

\* C13: a write(buf, size) on a device issues exactly one write of those
\* bytes to the source descriptor and replies the count written, or the errno
\* when the source write fails; either way the ring, prod_pos, prod_gen,
\* every read_pos, read_gen and open_count and every retained notifier are
\* unchanged.
C13_WriteTransparent ==
    [][ last'.op = "write" =>
          /\ Len(last'.calls) = 1
          /\ last'.calls[1].fd = "source_fd"
          /\ last'.calls[1].data = last'.data
          /\ last'.calls[1].size = last'.size
          /\ LET res == last'.calls[1].res
             IN  IF res.srv < 0
                 THEN last'.err = res.errno /\ last'.err # ""
                 ELSE last'.err = "" /\ last'.ret = res.srv
          /\ UNCHANGED <<buf, pos, round, dev_pos, dev_round, n_clients,
                         poll_handle, notifier>> ]_vars

\* a write that the source took only in part, on a device that holds a
\* notifier and has unread data, after a wrap of the ring
C13_Witness ==
    /\ last.op = "write"
    /\ last.err = ""
    /\ last.ret > 0
    /\ last.ret < last.size
    /\ poll_handle[last.dev] # 0
    /\ avail(last.dev) > 0
    /\ round > 0

\* the process is inside sertee_loop and has not set stop
LoopRunning ==
    /\ proc.pc \in {"wait", "batch"}
    /\ ~proc.stop
    /\ proc.status = "running"

\* C14: when a source read reports would-block, interrupted, another error or
\* end-of-stream, the drain loop stops without changing prod_pos, prod_gen,
\* the ring, any consumer cursor or any notifier, and the event loop keeps
\* running: it goes on with the next event of the batch, or waits for the
\* next batch.
C14_SourceFailureHandling ==
    [][ last'.op \in read_failures =>
          /\ UNCHANGED <<buf, pos, round, total, dev_pos, dev_round,
                         n_clients, poll_handle, notifier>>
          /\ LoopRunning'
          /\ IF proc.i < Len(proc.events)
             THEN /\ proc'.pc = "batch"
                  /\ proc'.events = proc.events
                  /\ proc'.i = proc.i + 1
             ELSE proc'.pc = "wait"
          /\ proc'.torn = <<>> ]_vars

\* a source read has failed with an error other than would-block after the
\* source had filled the ring, a device holds a notifier, and the batch has a
\* device event left, which the loop is now at
C14_Witness ==
    /\ last.op = "error"
    /\ round > 0
    /\ \E d \in Devs : poll_handle[d] # 0
    /\ proc.pc = "batch"
    /\ proc.events[proc.i] \in Devs

\* the step that has just been taken hit a stop condition of sertee_loop:
\* epoll_wait failed, fuse_session_receive_buf failed or returned 0, or the
\* session reported exited after a request was dispatched
StopCondition(rep) ==
    \/ rep.op \in {"epoll_wait failed", "receive failed", "receive eof"}
    \/ rep.op \in Requests /\ rep.exited

\* the step that has just been taken ran a callback or a source read
Dispatched(rep) == rep.op \in Requests \cup read_failures \cup {"source_read"}

\* the devices main() created that have a session
Sessions == {d \in 1..proc.n_devs : proc.fsess[d] = "set"}

\* C15: the loop exits exactly when epoll_wait fails, a receive reports
\* failure or end-of-stream, or a session reports exited after dispatch; an
\* interrupted receive only skips that descriptor. Once the stop condition is
\* hit no further source read or callback is dispatched, of the same batch or
\* of a later one, and every session is torn down in creation order.
C15_LoopShutdown ==
    [][ /\ (proc.pc \in {"wait", "batch"} =>
              /\ (proc'.pc = "teardown") = StopCondition(last')
              /\ (~StopCondition(last') => proc'.pc \in {"wait", "batch"})
              /\ (last'.op = "receive eintr" =>
                    /\ UNCHANGED <<ringVars, devVars, notifier>>
                    /\ IF proc.i < Len(proc.events)
                       THEN /\ proc'.pc = "batch"
                            /\ proc'.events = proc.events
                            /\ proc'.i = proc.i + 1
                       ELSE proc'.pc = "wait"))
        /\ (proc.stop \/ proc.pc \in {"teardown", "exit"} =>
              /\ ~Dispatched(last')
              /\ last'.op \in {"teardown", "return"}
              /\ UNCHANGED <<ringVars, devVars, notifier>>
              /\ proc'.pc \in {"teardown", "exit"})
        /\ (last'.op = "teardown" =>
              /\ last'.dev = Len(proc.torn) + 1
              /\ \A d \in Sessions : d < last'.dev => d \in Range(proc.torn)
              /\ (proc'.pc = "teardown" =>
                    proc'.torn = Append(proc.torn, last'.dev)))
        /\ (last'.op = "return" =>
              proc.torn = [j \in 1..proc.n_devs |-> j])
        /\ (proc'.pc = "exit" =>
              /\ Sessions \subseteq Range(proc'.torn)
              /\ \A j, k \in DOMAIN proc'.torn :
                    j < k => proc'.torn[j] < proc'.torn[k]) ]_vars

\* a session reported exited after the request of the first event of a batch
\* that has further events, after both devices were registered
C15_Witness ==
    /\ proc.pc = "teardown"
    /\ proc.stop
    /\ last.exited
    /\ proc.i < Len(proc.events)
    /\ Sessions = Devs
    /\ proc.torn = <<>>

\* C16: if registering a device with the framework or with epoll fails, the
\* process exits with a nonzero status and the event loop is never entered:
\* the loop runs only after every device of the list was registered.
C16_RegistrationFailureAborts ==
    /\ (proc.rv # 0 => proc.pc = "exit" /\ proc.status = "exit nonzero")
    /\ (proc.pc \in {"wait", "batch"} =>
          /\ proc.n_devs = n_devs
          /\ Sessions = Devs
          /\ proc.epoll = {0} \cup Devs)

\* what the program does instead: after a failed registration the loop is
\* entered with the devices registered so far, and requests are served
C16_LoopAfterFailure ==
    /\ proc.rv # 0
    /\ proc.pc = "batch"
    /\ last.op \in Requests

\* C17: for every open consumer, after every callback and every source read
\* (overtake repair included), read_pos is in [0, capacity): never capacity.
C17_PositionRange ==
    \A d \in Devs : IsOpen(d) => 0 <= dev_pos[d] /\ dev_pos[d] < bufsize

\* C18: each source-read iteration requests at least 1 and at most capacity -
\* prod_pos bytes and stores what it got contiguously at prod_pos, writing no
\* cell outside the buffer and no other cell; after it prod_pos is in
\* [0, capacity), and prod_gen is incremented by one exactly when prod_pos
\* reached capacity and was reset to 0.
C18_ProducerPosition ==
    [][ /\ 0 <= pos' /\ pos' < bufsize
        /\ DOMAIN buf' = 0..(bufsize - 1)
        /\ (last'.op = "source_read" =>
              LET k == last'.ret
              IN  /\ 1 <= last'.size
                  /\ last'.size <= bufsize - pos
                  /\ 1 <= k /\ k <= last'.size
                  /\ last'.start = pos
                  /\ \A i \in 0..(bufsize - 1) :
                        buf'[i] = IF pos <= i /\ i < pos + k
                                  THEN total + (i - pos) + 1
                                  ELSE buf[i]
                  /\ pos' = (IF pos + k = bufsize THEN 0 ELSE pos + k)
                  /\ round' = (IF pos + k = bufsize THEN round + 1
                               ELSE round))
        /\ (last'.op # "source_read" => UNCHANGED <<buf, pos, round>>) ]_vars

\* a source read that began inside the ring has filled it to the end for the
\* second time
C18_Witness ==
    /\ last.op = "source_read"
    /\ last.start > 0
    /\ last.start + last.ret = bufsize
    /\ pos = 0
    /\ round = 2

\* every open consumer has 0 <= available <= capacity (looked at before each
\* step: every state has a next step, a source read that fails)
AvailableBounded ==
    \A d \in Devs : IsOpen(d) => 0 <= avail(d) /\ avail(d) <= bufsize

\* C19 as stated: for every open consumer 0 <= available <= capacity, and
\* every read reply satisfies read_pos + offset + returned_size <= end <=
\* capacity.
C19_SliceAsStated ==
    [][ /\ AvailableBounded
        /\ (last'.op = "read" =>
              /\ dev_pos[last'.dev] + last'.off + last'.ret
                   <= SegmentEnd(last'.dev)
              /\ SegmentEnd(last'.dev) <= bufsize) ]_vars

\* C19 amended: for every open consumer 0 <= available <= capacity and end <=
\* capacity; every read reply that carries bytes is a slice inside the ring
\* and inside the readable segment: 0 <= read_pos + offset and read_pos +
\* offset + returned_size <= end. A reply of zero bytes carries no slice, and
\* the inequality does not hold for it: a caught-up consumer has end at the
\* base of the buffer, below read_pos, and an offset above available puts
\* read_pos + offset past end.
C19_AvailableAndSlices ==
    [][ /\ AvailableBounded
        /\ (last'.op = "read" =>
              LET d == last'.dev
              IN  /\ SegmentEnd(d) <= bufsize
                  /\ (last'.ret > 0 =>
                        /\ 0 <= dev_pos[d] + last'.off
                        /\ last'.start = dev_pos[d] + last'.off
                        /\ dev_pos[d] + last'.off + last'.ret <= SegmentEnd(d)
                        /\ last'.start + last'.ret <= bufsize)
                  /\ (last'.ret = 0 /\ last'.off = 0 /\ dev_pos[d] = pos
                      /\ dev_round[d] = round /\ pos > 0
                        => dev_pos[d] + last'.off + last'.ret
                             > SegmentEnd(d))) ]_vars

\* a read at offset 1 was replied the bytes up to the end of the ring
C19_Witness ==
    /\ last.op = "read"
    /\ last.off = 1
    /\ last.ret > 0
    /\ last.start + last.ret = bufsize
    /\ dev_pos[last.dev] # 0

\* C20: for every interleaving of source reads with a consumer's open and
\* offset-0 reads, the bytes returned to it since the open are a subsequence
\* of the source byte stream: each is a source byte, none is returned twice
\* and none after a byte the source produced later.
C20_InOrderNoDuplicates ==
    IsOpen(tap) /\ hist.off0 =>
        /\ \A i \in DOMAIN recv : recv[i] \in 1..total
        /\ \A i, j \in DOMAIN recv : i < j => recv[i] < recv[j]

====
